---- MODULE Spec2Model ----
(***************************************************************************)
(* Model of the KML viewer script app.py: one script run per request, the  *)
(* session cache in st.session_state, the Drive share-link rewriting, the  *)
(* preprocessing of the dataset and the choice of the displayed geometry.  *)
(***************************************************************************)
EXTENDS Integers, Sequences, FiniteSets, TLC

VARIABLES
    pc,                 \* position of the script run ("idle" between runs)
    session_file_url,   \* st.session_state.file_url (NoSource: key absent)
    session_input_gdf,  \* st.session_state.input_gdf (NoGdf: key absent)
    source,             \* the identifier the run was requested with
    file_url,           \* the script's variable file_url
    input_gdf,          \* the script's variable input_gdf
    geometry_gdf,       \* the script's variable geometry_gdf
    branch,             \* "hit" / "miss": branch taken at the cache check
    warned,             \* st.warning of line 79 shown in this run
    outcome,            \* how the run ended
    error_type,         \* type name carried by the st.error of line 112
    map_gdf,            \* the GeoDataFrame handed to m.add_gdf
    stats_gdf,          \* the GeoDataFrame the metrics were computed from
    csv_name,           \* file name given to st.download_button
    ndvi_link,          \* file_url parameter of the NDVI cross-link
    readCount,          \* number of gpd.read_file calls so far
    prev,               \* summary of the previous run of the session
    pre_pc, pre_raw, pre_gdf,   \* preprocess_gdf run step by step
    url_pc, url_in, url_out     \* the URL rewriting run on its own

vars == <<pc, session_file_url, session_input_gdf, source, file_url,
          input_gdf, geometry_gdf, branch, warned, outcome, error_type,
          map_gdf, stats_gdf, csv_name, ndvi_link, readCount, prev,
          pre_pc, pre_raw, pre_gdf, url_pc, url_in, url_out>>

runVars == <<pc, session_file_url, session_input_gdf, source, file_url,
             input_gdf, geometry_gdf, branch, warned, outcome, error_type,
             map_gdf, stats_gdf, csv_name, ndvi_link, readCount, prev>>

preVars == <<pre_pc, pre_raw, pre_gdf>>

urlVars == <<url_pc, url_in, url_out>>

----------------------------------------------------------------------------
(* Bounds *)

MaxRecs == 3        \* records in a dataset returned by the reader
MaxReads == 3       \* gpd.read_file calls in one session
PreMaxRecs == 2     \* records in a dataset given to preprocess_gdf alone
MaxPieces == 3      \* pieces an input URL is assembled from

----------------------------------------------------------------------------
(* Strings are sequences of characters. *)

DriveFilePrefix ==
    <<"h","t","t","p","s",":","/","/","d","r","i","v","e",".","g","o","o","g","l","e",".","c","o","m","/","f","i","l","e","/","d","/">>

DriveOpenPrefix ==
    <<"h","t","t","p","s",":","/","/","d","r","i","v","e",".","g","o","o","g","l","e",".","c","o","m","/","o","p","e","n","?","i","d","=">>

DriveDownloadPrefix ==
    <<"h","t","t","p","s",":","/","/","d","r","i","v","e",".","g","o","o","g","l","e",".","c","o","m","/","u","c","?","i","d","=">>

MetricsSuffix ==
    <<"_","m","e","t","r","i","c","s",".","c","s","v">>

\* str.startswith
startswith(s, p) ==
    Len(s) >= Len(p) /\ SubSeq(s, 1, Len(p)) = p

\* str.replace(old, new): every non-overlapping occurrence, left to right
RECURSIVE replace(_, _, _)
replace(s, old, new) ==
    IF Len(s) = 0 THEN <<>>
    ELSE IF startswith(s, old)
         THEN new \o replace(SubSeq(s, Len(old) + 1, Len(s)), old, new)
         ELSE <<Head(s)>> \o replace(Tail(s), old, new)

\* s.split(sep)[0]
RECURSIVE split_first(_, _)
split_first(s, sep) ==
    IF Len(s) = 0 THEN <<>>
    ELSE IF Head(s) = sep THEN <<>>
         ELSE <<Head(s)>> \o split_first(Tail(s), sep)

\* A source identifier: a URL string or an uploaded-file handle.
NoSource == [kind |-> "none", val |-> <<>>]

StrSource(s) == [kind |-> "str", val |-> s]

UploadSource(n) == [kind |-> "upload", val |-> n]

\* Lines 69-75: the Drive share-link rewriting of file_url
DriveRewrite(u) ==
    IF u.kind = "str"
    THEN IF startswith(u.val, DriveFilePrefix)
         THEN StrSource(DriveDownloadPrefix
                        \o split_first(replace(u.val, DriveFilePrefix, <<>>), "/"))
         ELSE IF startswith(u.val, DriveOpenPrefix)
              THEN StrSource(DriveDownloadPrefix
                             \o replace(u.val, DriveOpenPrefix, <<>>))
              ELSE u
    ELSE u

----------------------------------------------------------------------------
(* Geometries, records and datasets *)

\* EPSG codes: the planar CRS of line 19 and WGS84 of lines 151-161
EpsgPlanar == 7761
EpsgGeographic == 4326

\* False easting / northing of EPSG:7761, standing for the projection
FalseEasting == 1000000
FalseNorthing == 1000000

\* A record: attribute mapping, geometry type, parts (rings / members) of
\* vertices; a vertex is <<x, y>> or <<x, y, z>>.
Rec(a, t, p) == [attrs |-> a, type |-> t, parts |-> p]

Gdf(i, s, c, r) == [id |-> i, source |-> s, crs |-> c, recs |-> r]

NoGdf == Gdf(0, NoSource, 0, <<>>)

has_z(g) == \E i \in 1..Len(g.parts) :
                \E j \in 1..Len(g.parts[i]) : Len(g.parts[i][j]) = 3

is_empty(g) == g.parts = <<>>

\* Reprojection of one vertex; the third coordinate is carried along
Reproject(v, from, to) ==
    LET dx == IF from = EpsgGeographic /\ to = EpsgPlanar THEN FalseEasting
              ELSE IF from = EpsgPlanar /\ to = EpsgGeographic THEN 0 - FalseEasting
              ELSE 0
        dy == IF from = EpsgGeographic /\ to = EpsgPlanar THEN FalseNorthing
              ELSE IF from = EpsgPlanar /\ to = EpsgGeographic THEN 0 - FalseNorthing
              ELSE 0
    IN  IF Len(v) = 3 THEN <<v[1] + dx, v[2] + dy, v[3]>>
        ELSE <<v[1] + dx, v[2] + dy>>

\* Reprojection of every vertex of one geometry
ReprojectGeometry(g, from, to) ==
    [g EXCEPT !.parts = [i \in 1..Len(g.parts) |->
        [j \in 1..Len(g.parts[i]) |-> Reproject(g.parts[i][j], from, to)]]]

\* GeoDataFrame.to_crs(epsg=...)
to_crs(gdf, epsg) ==
    IF gdf.crs = epsg THEN gdf
    ELSE [gdf EXCEPT !.crs = epsg,
                     !.recs = [i \in 1..Len(gdf.recs) |->
                                 ReprojectGeometry(gdf.recs[i], gdf.crs, epsg)]]

\* transform(lambda x, y, z: (x, y), shape): every vertex of every part
TransformXY(shape) ==
    [shape EXCEPT !.parts = [i \in 1..Len(shape.parts) |->
        [j \in 1..Len(shape.parts[i]) |->
            <<shape.parts[i][j][1], shape.parts[i][j][2]>>]]]

\* Variant of lines 11-15 with the lambda returning (y, x)
shape_3d_to_2d_swapped(shape) ==
    IF has_z(shape)
    THEN [shape EXCEPT !.parts = [i \in 1..Len(shape.parts) |->
             [j \in 1..Len(shape.parts[i]) |->
                 <<shape.parts[i][j][2], shape.parts[i][j][1]>>]]]
    ELSE shape

\* Lines 11-15
shape_3d_to_2d(shape) ==
    IF has_z(shape)
    THEN TransformXY(shape)
    ELSE shape

\* GeoSeries.buffer(0) on one geometry: points and lines have no area and
\* become an empty Polygon; polygonal geometries keep type and outline; the
\* result is two-dimensional.
buffer0(g) ==
    IF g.type \in {"Polygon", "MultiPolygon"}
    THEN [g EXCEPT !.parts = [i \in 1..Len(g.parts) |->
             [j \in 1..Len(g.parts[i]) |-> <<g.parts[i][j][1], g.parts[i][j][2]>>]]]
    ELSE [g EXCEPT !.type = "Polygon", !.parts = <<>>]

\* Line 20: gdf["geometry"].apply(shape_3d_to_2d)
apply_shape_3d_to_2d(gdf) ==
    [gdf EXCEPT !.recs = [i \in 1..Len(gdf.recs) |-> shape_3d_to_2d(gdf.recs[i])]]

\* Line 21: gdf.buffer(0)
buffer(gdf) ==
    [gdf EXCEPT !.recs = [i \in 1..Len(gdf.recs) |-> buffer0(gdf.recs[i])]]

\* Lines 18-22
preprocess_gdf(gdf) ==
    buffer(apply_shape_3d_to_2d(to_crs(gdf, EpsgPlanar)))

\* input_gdf[input_gdf.index == i], i counted from 0
Row(gdf, i) ==
    [gdf EXCEPT !.recs = IF i + 1 \in 1..Len(gdf.recs)
                         THEN <<gdf.recs[i + 1]>> ELSE <<>>]

\* geometry_gdf.geometry.item() of a one-row frame
Item(gdf1) == gdf1.recs[1]

\* Variant of lines 25-27 without the emptiness test
is_valid_polygon_type_only(gdf1) ==
    LET geometry == Item(gdf1)
    IN  geometry.type = "Polygon"

\* Lines 25-27
is_valid_polygon(gdf1) ==
    LET geometry == Item(gdf1)
    IN  (geometry.type = "Polygon") /\ (~ is_empty(geometry))

\* Lines 81-84: the index the loop breaks at, -1 when it runs to the end
LoopBreakIndex(gdf) ==
    LET ok == {i \in 0..(Len(gdf.recs) - 1) : is_valid_polygon(Row(gdf, i))}
    IN  IF ok = {} THEN 0 - 1
        ELSE CHOOSE i \in ok : \A j \in ok : i <= j

\* Line 106: the index of the record that is displayed
DisplayIndex == 0

\* Variant of lines 109-113 that also turns empty geometries away
check_valid_geometry_nonempty(gdf1) ==
    LET geometry == Item(gdf1)
    IN  ~ (geometry.type /= "Polygon" \/ is_empty(geometry))

\* Lines 109-113: TRUE when the guard lets the run go on
check_valid_geometry(gdf1) ==
    LET geometry == Item(gdf1)
    IN  ~ (geometry.type /= "Polygon")

----------------------------------------------------------------------------
(* Inputs *)

SeqsUpTo(S, n) == UNION {[1..k -> S] : k \in 0..n}

Ring2D == << <<0, 0>>, <<0, 1>>, <<1, 1>>, <<0, 0>> >>
RingZ == << <<0, 0, 5>>, <<0, 1, 6>>, <<1, 1, 7>>, <<0, 0, 5>> >>
RingFar == << <<3, 3>>, <<3, 4>>, <<4, 4>>, <<3, 3>> >>

PointZ == Rec("point", "Point", << << <<2, 2, 9>> >> >>)
Point2D == Rec("point2d", "Point", << << <<2, 2>> >> >>)
LineZ == Rec("line", "LineString", << << <<0, 0, 1>>, <<2, 2, 1>> >> >>)
PolyEmpty == Rec("empty", "Polygon", <<>>)
Poly2D == Rec("poly2d", "Polygon", <<Ring2D>>)
PolyZ == Rec("poly", "Polygon", <<RingZ>>)
Multi2D == Rec("multi", "MultiPolygon", <<Ring2D, RingFar>>)
MultiZ == Rec("multiz", "MultiPolygon", <<RingZ, RingFar>>)

\* Geometries of the datasets the reader returns during a session
RawGeoms == {PointZ, PolyZ, Multi2D}

\* KML and GeoJSON files are in WGS84
ReaderCrs == {EpsgGeographic}

\* Geometries and CRSs preprocess_gdf is exercised with on its own
PreGeoms == {Point2D, PointZ, LineZ, PolyEmpty, Poly2D, PolyZ, MultiZ}
PreCrs == {EpsgGeographic, EpsgPlanar}

UrlFile == StrSource(DriveFilePrefix \o <<"A", "/", "v">>)
UrlPlain == StrSource(<<"h","t","t","p","s",":","/","/","x",".","k","m","l">>)
Upload == UploadSource(<<"f",".","k","m","l">>)

\* Identifiers a request can carry (query parameter or uploaded file)
Sources == {UrlFile, UrlPlain, Upload}

\* Pieces the URLs given to the rewriting alone are assembled from
UrlPieces == {DriveFilePrefix, DriveOpenPrefix, <<"A">>, <<"/">>, <<"h", "t", "t", "p">>}

RECURSIVE Concat(_)
Concat(ss) == IF Len(ss) = 0 THEN <<>> ELSE Head(ss) \o Concat(Tail(ss))

UrlInputs == {StrSource(Concat(ps)) : ps \in SeqsUpTo(UrlPieces, MaxPieces)}
             \cup {Upload}

----------------------------------------------------------------------------
(* The script run *)

NoPrev == [key |-> NoSource, loaded |-> FALSE, id |-> 0, reads |-> 0,
           rendered |-> FALSE, csv |-> <<>>, link |-> <<>>]

\* f"{file_url}"
Str(u) == u.val

RunInit ==
    /\ pc = "idle"
    /\ session_file_url = NoSource
    /\ session_input_gdf = NoGdf
    /\ source = NoSource
    /\ file_url = NoSource
    /\ input_gdf = NoGdf
    /\ geometry_gdf = NoGdf
    /\ branch = "none"
    /\ warned = FALSE
    /\ outcome = "none"
    /\ error_type = ""
    /\ map_gdf = NoGdf
    /\ stats_gdf = NoGdf
    /\ csv_name = <<>>
    /\ ndvi_link = <<>>
    /\ readCount = 0
    /\ prev = NoPrev

PreOff == pre_pc = "off" /\ pre_raw = NoGdf /\ pre_gdf = NoGdf

UrlOff == url_pc = "off" /\ url_in = NoSource /\ url_out = NoSource

Init == RunInit /\ PreOff /\ UrlOff

\* What the run that just ended leaves behind for the next one to compare
\* with; kept only of a run that stored a dataset (line 89) or rendered
Summary ==
    LET loaded == branch = "miss" /\ input_gdf /= NoGdf
                                  /\ session_input_gdf = input_gdf
        rendered == outcome = "Rendered"
    IN  IF loaded \/ rendered
        THEN [key |-> source, loaded |-> loaded, id |-> input_gdf.id,
              reads |-> readCount, rendered |-> rendered,
              csv |-> csv_name, link |-> ndvi_link]
        ELSE NoPrev

\* A new script run starts: every script variable is unbound again
StartRun(u) ==
    /\ source' = u
    /\ file_url' = u
    /\ input_gdf' = NoGdf
    /\ geometry_gdf' = NoGdf
    /\ branch' = "none"
    /\ warned' = FALSE
    /\ error_type' = ""
    /\ map_gdf' = NoGdf
    /\ stats_gdf' = NoGdf
    /\ csv_name' = <<>>
    /\ ndvi_link' = <<>>
    /\ prev' = Summary

\* Lines 53-62 with neither a query parameter nor an uploaded file: st.stop()
RequestNoSource ==
    /\ pc = "idle"
    /\ StartRun(NoSource)
    /\ outcome' = "NoSource"
    /\ UNCHANGED <<pc, session_file_url, session_input_gdf, readCount>>
    /\ UNCHANGED <<preVars, urlVars>>

\* Lines 53-62 with a query parameter or an uploaded file
Request ==
    /\ pc = "idle"
    /\ readCount < MaxReads
    /\ \E u \in Sources : StartRun(u)
    /\ outcome' = "running"
    /\ pc' = "check_cache"
    /\ UNCHANGED <<session_file_url, session_input_gdf, readCount>>
    /\ UNCHANGED <<preVars, urlVars>>

\* Variant of line 64 with the comparison of the identifiers inverted
CacheHitInverted ==
    /\ session_file_url /= NoSource
    /\ session_input_gdf /= NoGdf
    /\ session_file_url /= file_url

\* Line 64: the condition of the cache check
CacheHit ==
    /\ session_file_url /= NoSource
    /\ session_input_gdf /= NoGdf
    /\ session_file_url = file_url

\* Lines 64-66
UseCached ==
    /\ pc = "check_cache"
    /\ CacheHit
    /\ input_gdf' = session_input_gdf
    /\ branch' = "hit"
    /\ pc' = "display"
    /\ UNCHANGED <<session_file_url, session_input_gdf, source, file_url,
                   geometry_gdf, warned, outcome, error_type, map_gdf,
                   stats_gdf, csv_name, ndvi_link, readCount, prev>>
    /\ UNCHANGED <<preVars, urlVars>>

\* Lines 67-68
MissCache ==
    /\ pc = "check_cache"
    /\ ~ CacheHit
    /\ session_file_url' = file_url
    /\ branch' = "miss"
    /\ pc' = "rewrite"
    /\ UNCHANGED <<session_input_gdf, source, file_url, input_gdf,
                   geometry_gdf, warned, outcome, error_type, map_gdf,
                   stats_gdf, csv_name, ndvi_link, readCount, prev>>
    /\ UNCHANGED <<preVars, urlVars>>

\* Lines 69-75
RewriteUrl ==
    /\ pc = "rewrite"
    /\ file_url' = DriveRewrite(file_url)
    /\ pc' = "read"
    /\ UNCHANGED <<session_file_url, session_input_gdf, source, input_gdf,
                   geometry_gdf, branch, warned, outcome, error_type, map_gdf,
                   stats_gdf, csv_name, ndvi_link, readCount, prev>>
    /\ UNCHANGED <<preVars, urlVars>>

\* Line 77: gpd.read_file (or the preprocessing) raises; the run ends there
ReadFileError ==
    /\ pc = "read"
    /\ readCount' = readCount + 1
    /\ outcome' = "LoadError"
    /\ pc' = "idle"
    /\ UNCHANGED <<session_file_url, session_input_gdf, source, file_url,
                   input_gdf, geometry_gdf, branch, warned, error_type,
                   map_gdf, stats_gdf, csv_name, ndvi_link, prev>>
    /\ UNCHANGED <<preVars, urlVars>>

\* Lines 77-79: gpd.read_file returns a dataset, which is preprocessed
ReadFileOk ==
    /\ pc = "read"
    /\ readCount' = readCount + 1
    /\ \E recs \in SeqsUpTo(RawGeoms, MaxRecs), c \in ReaderCrs :
          input_gdf' = preprocess_gdf(Gdf(readCount + 1, source, c, recs))
    /\ warned' = (Len(input_gdf'.recs) > 1)
    /\ pc' = "select"
    /\ UNCHANGED <<session_file_url, session_input_gdf, source, file_url,
                   geometry_gdf, branch, outcome, error_type, map_gdf,
                   stats_gdf, csv_name, ndvi_link, prev>>
    /\ UNCHANGED <<preVars, urlVars>>

\* Lines 81-84 and 89: the loop breaks, the dataset is stored in the session
SelectFound ==
    /\ pc = "select"
    /\ LoopBreakIndex(input_gdf) >= 0
    /\ geometry_gdf' = Row(input_gdf, LoopBreakIndex(input_gdf))
    /\ session_input_gdf' = input_gdf
    /\ pc' = "display"
    /\ UNCHANGED <<session_file_url, source, file_url, input_gdf, branch,
                   warned, outcome, error_type, map_gdf, stats_gdf, csv_name,
                   ndvi_link, readCount, prev>>
    /\ UNCHANGED <<preVars, urlVars>>

\* Lines 81-87: the loop runs to its end; st.error and st.stop()
SelectNotFound ==
    /\ pc = "select"
    /\ LoopBreakIndex(input_gdf) < 0
    /\ geometry_gdf' = IF Len(input_gdf.recs) = 0 THEN geometry_gdf
                       ELSE Row(input_gdf, Len(input_gdf.recs) - 1)
    /\ outcome' = "NoPolygonFound"
    /\ pc' = "idle"
    /\ UNCHANGED <<session_file_url, session_input_gdf, source, file_url,
                   input_gdf, branch, warned, error_type, map_gdf, stats_gdf,
                   csv_name, ndvi_link, readCount, prev>>
    /\ UNCHANGED <<preVars, urlVars>>

\* Lines 106-116, the guard fails: st.error with the type name, st.stop()
DisplayRejected ==
    /\ pc = "display"
    /\ Len(Row(input_gdf, DisplayIndex).recs) = 1
    /\ geometry_gdf' = Row(input_gdf, DisplayIndex)
    /\ ~ check_valid_geometry(geometry_gdf')
    /\ error_type' = Item(geometry_gdf').type
    /\ outcome' = "InvalidGeometryType"
    /\ pc' = "idle"
    /\ UNCHANGED <<session_file_url, session_input_gdf, source, file_url,
                   input_gdf, branch, warned, map_gdf, stats_gdf, csv_name,
                   ndvi_link, readCount, prev>>
    /\ UNCHANGED <<preVars, urlVars>>

\* Lines 106-116, the guard passes
DisplayAccepted ==
    /\ pc = "display"
    /\ Len(Row(input_gdf, DisplayIndex).recs) = 1
    /\ geometry_gdf' = Row(input_gdf, DisplayIndex)
    /\ check_valid_geometry(geometry_gdf')
    /\ pc' = "render"
    /\ UNCHANGED <<session_file_url, session_input_gdf, source, file_url,
                   input_gdf, branch, warned, outcome, error_type, map_gdf,
                   stats_gdf, csv_name, ndvi_link, readCount, prev>>
    /\ UNCHANGED <<preVars, urlVars>>

\* Lines 118-156: the basemap and the geometry handed to the map
RenderMap ==
    /\ pc = "render"
    /\ map_gdf' = to_crs(geometry_gdf, EpsgGeographic)
    /\ pc' = "metrics"
    /\ UNCHANGED <<session_file_url, session_input_gdf, source, file_url,
                   input_gdf, geometry_gdf, branch, warned, outcome,
                   error_type, stats_gdf, csv_name, ndvi_link, readCount, prev>>
    /\ UNCHANGED <<preVars, urlVars>>

\* Lines 159-173 on an empty geometry: the feature has no coordinates and
\* the metrics table has no row for .item(); the run ends with the exception
MetricsError ==
    /\ pc = "metrics"
    /\ is_empty(Item(geometry_gdf))
    /\ stats_gdf' = geometry_gdf
    /\ outcome' = "Exception"
    /\ pc' = "idle"
    /\ UNCHANGED <<session_file_url, session_input_gdf, source, file_url,
                   input_gdf, geometry_gdf, branch, warned, error_type,
                   map_gdf, csv_name, ndvi_link, readCount, prev>>
    /\ UNCHANGED <<preVars, urlVars>>

\* Lines 159-230: the metrics, the CSV download and the cross-link
Metrics ==
    /\ pc = "metrics"
    /\ ~ is_empty(Item(geometry_gdf))
    /\ stats_gdf' = geometry_gdf
    /\ csv_name' = Str(file_url) \o MetricsSuffix
    /\ ndvi_link' = IF file_url.kind = "str" THEN Str(file_url) ELSE <<>>
    /\ outcome' = "Rendered"
    /\ pc' = "idle"
    /\ UNCHANGED <<session_file_url, session_input_gdf, source, file_url,
                   input_gdf, geometry_gdf, branch, warned, error_type,
                   map_gdf, readCount, prev>>
    /\ UNCHANGED <<preVars, urlVars>>

Next ==
    \/ RequestNoSource
    \/ Request
    \/ UseCached
    \/ MissCache
    \/ RewriteUrl
    \/ ReadFileError
    \/ ReadFileOk
    \/ SelectFound
    \/ SelectNotFound
    \/ DisplayRejected
    \/ DisplayAccepted
    \/ RenderMap
    \/ MetricsError
    \/ Metrics

Spec == Init /\ [][Next]_vars

TypeOK ==
    /\ pc \in {"idle", "check_cache", "rewrite", "read", "select", "display", "render", "metrics"}
    /\ readCount \in 0..MaxReads

----------------------------------------------------------------------------
(* preprocess_gdf on its own, one statement of lines 19-21 per step *)

InitPre ==
    /\ RunInit
    /\ UrlOff
    /\ pre_pc = "to_crs"
    /\ \E c \in PreCrs, recs \in SeqsUpTo(PreGeoms, PreMaxRecs) :
          pre_raw = Gdf(1, UrlPlain, c, recs)
    /\ pre_gdf = pre_raw

\* Line 19
PreToCrs ==
    /\ pre_pc = "to_crs"
    /\ pre_gdf' = to_crs(pre_gdf, EpsgPlanar)
    /\ pre_pc' = "drop_z"
    /\ UNCHANGED <<pre_raw, runVars, urlVars>>

\* Line 20
PreDropZ ==
    /\ pre_pc = "drop_z"
    /\ pre_gdf' = apply_shape_3d_to_2d(pre_gdf)
    /\ pre_pc' = "buffer"
    /\ UNCHANGED <<pre_raw, runVars, urlVars>>

\* Lines 21-22
PreBuffer ==
    /\ pre_pc = "buffer"
    /\ pre_gdf' = buffer(pre_gdf)
    /\ pre_pc' = "done"
    /\ UNCHANGED <<pre_raw, runVars, urlVars>>

NextPre == PreToCrs \/ PreDropZ \/ PreBuffer

SpecPre == InitPre /\ [][NextPre]_vars

----------------------------------------------------------------------------
(* The rewriting of lines 69-75 on its own *)

InitUrl ==
    /\ RunInit
    /\ PreOff
    /\ url_pc = "start"
    /\ url_in \in UrlInputs
    /\ url_out = NoSource

\* Lines 69-77: the value of file_url that reaches gpd.read_file
UrlRewrite ==
    /\ url_pc = "start"
    /\ url_out' = DriveRewrite(url_in)
    /\ url_pc' = "done"
    /\ UNCHANGED <<url_in, runVars, preVars>>

NextUrl == UrlRewrite

SpecUrl == InitUrl /\ [][NextUrl]_vars

----------------------------------------------------------------------------
(* Properties *)

\* A record qualifies when it is exactly a Polygon and not empty
Qualifies(r) == r.type = "Polygon" /\ r.parts /= <<>>

QualifyingIndexes(gdf) == {i \in 1..Len(gdf.recs) : Qualifies(gdf.recs[i])}

FirstQualifying(gdf) ==
    CHOOSE i \in QualifyingIndexes(gdf) : \A j \in QualifyingIndexes(gdf) : i <= j

\* C1: when the dataset of the run has a qualifying record, the geometry
\* handed to the map and the geometry the metrics are computed from are the
\* first qualifying record of the dataset, in record order.
C1_FirstPolygonDisplayed ==
    QualifyingIndexes(input_gdf) /= {} =>
        /\ (map_gdf /= NoGdf =>
               map_gdf.recs = to_crs([input_gdf EXCEPT !.recs =
                   <<input_gdf.recs[FirstQualifying(input_gdf)]>>], EpsgGeographic).recs)
        /\ (stats_gdf /= NoGdf =>
               stats_gdf.recs = <<input_gdf.recs[FirstQualifying(input_gdf)]>>)

\* C2: a run that takes the cache-hit branch for an identifier uses a dataset
\* that was loaded from that identifier.
C2_CacheKeyedBySource ==
    branch = "hit" => input_gdf.source = source

\* C3: when the previous run loaded and stored a dataset for an identifier
\* and this run is for the same identifier, this run takes the cached
\* dataset, the very instance the previous run stored, and never calls the
\* reader.
C3_SecondRunUsesCachedInstance ==
    (prev.loaded /\ prev.key = source /\ pc /= "check_cache") =>
        /\ branch = "hit"
        /\ input_gdf.id = prev.id
        /\ input_gdf = session_input_gdf
        /\ readCount = prev.reads

C3_Witness ==
    /\ prev.loaded /\ prev.key = source
    /\ branch = "hit"
    /\ outcome = "Rendered"

\* C4: whenever a run is at the map rendering or the metrics, the geometry
\* it displays is exactly a Polygon and is not empty.
C4_DisplayedIsNonEmptyPolygon ==
    pc \in {"render", "metrics"} =>
        /\ Item(geometry_gdf).type = "Polygon"
        /\ ~ is_empty(Item(geometry_gdf))

\* C5: when the selection scan runs on a dataset without a qualifying record
\* (a dataset without records included) the run ends there with
\* NoPolygonFound: nothing is handed to the map, no metrics and no CSV are
\* produced, and the dataset is not stored in the session.
C5_NoPolygonHalts ==
    /\ [][(pc = "select" /\ QualifyingIndexes(input_gdf) = {}) =>
             /\ pc' = "idle"
             /\ outcome' = "NoPolygonFound"
             /\ session_input_gdf' = session_input_gdf]_vars
    /\ [](outcome = "NoPolygonFound" =>
             /\ pc = "idle"
             /\ QualifyingIndexes(input_gdf) = {}
             /\ map_gdf = NoGdf /\ stats_gdf = NoGdf
             /\ csv_name = <<>> /\ ndvi_link = <<>>
             /\ session_input_gdf /= input_gdf)

C5_Witness ==
    /\ outcome = "NoPolygonFound"
    /\ Len(input_gdf.recs) > 1
    /\ session_input_gdf /= NoGdf

\* C6: a run that renders the map and the metrics has shown the warning
\* exactly when its dataset has more than one record.
C6_WarningIffMultiRecord ==
    outcome = "Rendered" => (warned <=> Len(input_gdf.recs) > 1)

\* C7: the guard on the geometry chosen for display ends the run with
\* InvalidGeometryType, carrying the type name, exactly when the type is not
\* "Polygon"; then nothing is rendered, measured or exported, and otherwise
\* the run goes on to the rendering.
C7_GuardHaltsIffNotPolygon ==
    /\ [][pc = "display" =>
             /\ (Item(geometry_gdf').type /= "Polygon"
                    <=> (outcome' = "InvalidGeometryType" /\ pc' = "idle"))
             /\ (Item(geometry_gdf').type = "Polygon" <=> pc' = "render")]_vars
    /\ [](outcome = "InvalidGeometryType" =>
             /\ error_type = Item(geometry_gdf).type
             /\ error_type /= "Polygon"
             /\ map_gdf = NoGdf /\ stats_gdf = NoGdf
             /\ csv_name = <<>> /\ ndvi_link = <<>>)

C7_Witness ==
    /\ outcome = "InvalidGeometryType"
    /\ error_type = "MultiPolygon"
    /\ QualifyingIndexes(input_gdf) /= {}

\* The part of s before the first occurrence of the character c
UpTo(s, c) ==
    LET at == {i \in 1..Len(s) : s[i] = c}
    IN  IF at = {} THEN s
        ELSE SubSeq(s, 1, (CHOOSE i \in at : \A j \in at : i <= j) - 1)

AfterPrefix(s, p) == SubSeq(s, Len(p) + 1, Len(s))

\* C8: a URL that starts with the file/d/ prefix reaches the reader as the
\* download prefix followed by the path segment after the prefix up to the
\* next "/"; one that starts with the open?id= prefix as the download prefix
\* followed by everything after the prefix; anything else unchanged.
C8_DriveRewriting ==
    url_pc = "done" =>
        url_out =
          IF url_in.kind = "str" /\ startswith(url_in.val, DriveFilePrefix)
          THEN StrSource(DriveDownloadPrefix
                         \o UpTo(AfterPrefix(url_in.val, DriveFilePrefix), "/"))
          ELSE IF url_in.kind = "str" /\ startswith(url_in.val, DriveOpenPrefix)
               THEN StrSource(DriveDownloadPrefix
                              \o AfterPrefix(url_in.val, DriveOpenPrefix))
               ELSE url_in

TwoCoordinates(gdf) ==
    \A i \in 1..Len(gdf.recs) :
        \A k \in 1..Len(gdf.recs[i].parts) :
            \A j \in 1..Len(gdf.recs[i].parts[k]) : Len(gdf.recs[i].parts[k][j]) = 2

SameRecords(a, b) ==
    /\ Len(a.recs) = Len(b.recs)
    /\ \A i \in 1..Len(a.recs) : a.recs[i].attrs = b.recs[i].attrs

\* rec b has the vertices of rec a, each cut down to its (x, y) pair
SameXY(a, b) ==
    /\ Len(b.parts) = Len(a.parts)
    /\ \A k \in 1..Len(a.parts) :
          /\ Len(b.parts[k]) = Len(a.parts[k])
          /\ \A j \in 1..Len(a.parts[k]) :
                b.parts[k][j] = <<a.parts[k][j][1], a.parts[k][j][2]>>

\* C9 as stated: the output of preprocess has the records of the input in
\* the same order, and for every input geometry with a third coordinate the
\* output geometry has two coordinates per vertex, each vertex with the
\* (x, y) pair of the corresponding vertex of the input.
C9_OutputKeepsInputXY ==
    pre_pc = "done" =>
        /\ SameRecords(pre_raw, pre_gdf)
        /\ \A i \in 1..Len(pre_raw.recs) :
              has_z(pre_raw.recs[i]) => SameXY(pre_raw.recs[i], pre_gdf.recs[i])

\* C9 amended: preprocess keeps the number and the order of the records and
\* its output has two coordinates per vertex; the 3D-to-2D step gives every
\* geometry with a third coordinate two coordinates per vertex with the
\* (x, y) pair that vertex has in the input of the step (the reprojected
\* geometry), and leaves a geometry without a third coordinate unchanged.
C9_DropZKeepsStepXY ==
    /\ [](SameRecords(pre_raw, pre_gdf))
    /\ [](pre_pc = "done" => TwoCoordinates(pre_gdf))
    /\ [][pre_pc = "drop_z" =>
             \A i \in 1..Len(pre_gdf.recs) :
                 IF has_z(pre_gdf.recs[i])
                 THEN SameXY(pre_gdf.recs[i], pre_gdf'.recs[i])
                 ELSE pre_gdf'.recs[i] = pre_gdf.recs[i]]_vars

C9_Witness ==
    /\ pre_pc = "done"
    /\ pre_raw.crs = EpsgGeographic
    /\ Len(pre_raw.recs) = 2
    /\ has_z(pre_raw.recs[1]) /\ pre_raw.recs[1].type = "Polygon"
    /\ ~ has_z(pre_raw.recs[2])
    /\ pre_gdf.recs[1].parts /= <<>>

\* C10: two successive runs for the same identifier that both render embed
\* the same source string in the CSV file name and in the cross-link.
C10_SameIdentifierInOutputs ==
    (outcome = "Rendered" /\ prev.rendered /\ prev.key = source) =>
        /\ csv_name = prev.csv
        /\ ndvi_link = prev.link

====
